---- MODULE Spec2Model ----
(***************************************************************************)
(* Model of src/util/virqemu.c: conversion of a JSON value tree to the     *)
(* comma separated key=value syntax of the qemu command line, and the      *)
(* composition of LUKS encryption options.                                 *)
(*                                                                         *)
(* Text is a sequence of one-character strings, so that escaping and       *)
(* number formatting are computed character by character.                  *)
(***************************************************************************)
EXTENDS Integers, Sequences, FiniteSets, TLC

\* Largest integer that may appear in an array of the inputs.
MaxBit == 9
\* Longest array of arbitrary elements in the inputs.
MaxLen == 2

\* A NULL pointer (char * or virBitmapPtr); never equal to any text.
NULL == <<"NULL">>

VARIABLES
    pc,       \* position of the running call
    type,     \* virQEMUBuildObjectCommandlineFromJSON: const char *type
    alias,    \* const char *alias (both entry points)
    props,    \* virJSONValuePtr props: the object's pairs, in order
    enc,      \* virQEMUBuildLuksOpts: virStorageEncryptionInfoDefPtr enc
    buf,      \* the virBuffer content
    ret,      \* char *ret of virQEMUBuildObjectCommandlineFromJSON
    err,      \* the message of the last virReportError, "" when none
    i,        \* virJSONValueObjectForeachKeyValue: index of the current pair
    j,        \* virQEMUBuildCommandLineJSONRecurse: size_t i of the fallback loop
    pos,      \* virQEMUBuildCommandLineJSONRecurse: ssize_t pos
    bitmap,   \* virQEMUBuildCommandLineJSONRecurse: virBitmapPtr bitmap
    base      \* history: the buffer content on entry to the current walker call

vars == <<pc, type, alias, props, enc, buf, ret, err, i, j, pos, bitmap, base>>

----------------------------------------------------------------------------
(* Text helpers *)

Digit == <<"0", "1", "2", "3", "4", "5", "6", "7", "8", "9">>

RECURSIVE FormatUnsigned(_)
\* printf "%u" / "%zd" of a non-negative integer
FormatUnsigned(n) ==
    IF n < 10 THEN <<Digit[n + 1]>>
    ELSE FormatUnsigned(n \div 10) \o <<Digit[(n % 10) + 1]>>

DigitValue(c) == CHOOSE d \in 0..9 : Digit[d + 1] = c

IsDigit(c) == \E d \in 0..9 : Digit[d + 1] = c

RECURSIVE ParseDigits(_, _)
ParseDigits(tok, acc) ==
    IF tok = <<>> THEN acc
    ELSE ParseDigits(Tail(tok), acc * 10 + DigitValue(Head(tok)))

\* virStrToLong_ullp(str, NULL, 10, &result): -1 when the text is not a
\* non-negative decimal integer, else its value
StrToUll(tok) ==
    IF tok # <<>> /\ \A n \in 1..Len(tok) : IsDigit(tok[n])
    THEN ParseDigits(tok, 0)
    ELSE -1

RECURSIVE BufferEscape(_, _, _)
\* virBufferEscape(buf, escape, toescape, "%s", str): str with the escape
\* character put in front of every character of toescape
BufferEscape(escape, toescape, str) ==
    IF str = <<>> THEN <<>>
    ELSE (IF Head(str) \in toescape THEN <<escape, Head(str)>> ELSE <<Head(str)>>)
         \o BufferEscape(escape, toescape, Tail(str))

EscapeCommaDropped(str) == str

\* virQEMUBuildBufferEscapeComma: the text it appends for str
EscapeComma(str) == BufferEscape(",", {","}, str)

----------------------------------------------------------------------------
(* JSON values (virJSONValue): the tag and the member of the union in use *)

JString(s)  == [type |-> "string", string |-> s]
JNumber(t)  == [type |-> "number", number |-> t]
JBoolean(b) == [type |-> "boolean", boolean |-> b]
JArray(a)   == [type |-> "array", array |-> a]
JObject     == [type |-> "object"]
JNull       == [type |-> "null"]

\* the two messages reported through virReportError(VIR_ERR_INTERNAL_ERROR)
UnsupportedNesting == "nested JSON array to commandline conversion is not supported"
UnsupportedType == "NULL and OBJECT JSON types can't be converted to commandline string"

----------------------------------------------------------------------------
(* Bitmaps (virBitmap): max_bit bits, the set ones in bits *)

SetMax(S) == CHOOSE x \in S : \A y \in S : y <= x
SetMin(S) == CHOOSE x \in S : \A y \in S : x <= y

ArrayNumbers(a) == [n \in 1..Len(a) |->
                      IF a[n].type = "number" THEN StrToUll(a[n].number) ELSE -1]

\* a NULL virBitmapPtr
NoBitmap == [max_bit |-> 0, bits |-> {}]

\* virJSONValueGetArrayAsBitmap(value, &bitmap): 0 and the bitmap of an
\* array whose elements are distinct non-negative integers in ascending
\* order; -1 and a NULL bitmap for any other array
GetArrayAsBitmap(value) ==
    LET nums == ArrayNumbers(value.array)
        len  == Len(nums)
    IN  IF /\ \A n \in 1..len : nums[n] >= 0
           /\ \A n \in 1..len : \A m \in 1..len : n < m => nums[n] < nums[m]
        THEN [rc |-> 0,
              bitmap |-> [max_bit |-> IF len = 0 THEN 1 ELSE nums[len] + 1,
                          bits    |-> {nums[n] : n \in 1..len}]]
        ELSE [rc |-> -1, bitmap |-> NoBitmap]

\* virBitmapNextSetBit: the first set bit after pos, -1 when there is none
NextSetBit(bm, p) ==
    LET after == {b \in bm.bits : b > p}
    IN  IF after = {} THEN -1 ELSE SetMin(after)

\* virBitmapNextClearBit: the first clear bit after pos, -1 when there is none
NextClearBit(bm, p) ==
    LET after == {b \in 0..(bm.max_bit - 1) : b > p /\ b \notin bm.bits}
    IN  IF after = {} THEN -1 ELSE SetMin(after)

\* virBitmapLastSetBit: the last set bit, -1 when there is none
LastSetBit(bm) == IF bm.bits = {} THEN -1 ELSE SetMax(bm.bits)

----------------------------------------------------------------------------
(* Inputs *)

NoEnc == [cipher_name |-> NULL, cipher_size |-> 0, cipher_mode |-> NULL,
          cipher_hash |-> NULL, ivgen_name |-> NULL, ivgen_hash |-> NULL]

Init ==
    /\ pc = "idle"
    /\ type = <<>>
    /\ alias = <<>>
    /\ props = <<>>
    /\ enc = NoEnc
    /\ buf = <<>>
    /\ ret = NULL
    /\ err = ""
    /\ i = 0
    /\ j = 0
    /\ pos = -1
    /\ bitmap = NoBitmap
    /\ base = <<>>

----------------------------------------------------------------------------
(* virQEMUBuildCommandLineJSONRecurse *)

\* the text of a scalar value: the escaped string, the number's token,
\* yes or no
ScalarText(value) ==
    CASE value.type = "string"  -> EscapeComma(value.string)
      [] value.type = "number"  -> value.number
      [] value.type = "boolean" -> IF value.boolean THEN <<"y", "e", "s">>
                                   ELSE <<"n", "o">>

\* return 0 of a call: the caller goes on, the fallback loop with its next
\* element (nested call), virJSONValueObjectForeachKeyValue with its next pair
RecurseReturned(nested) ==
    IF nested
    THEN /\ pc' = "fallback"
         /\ j' = j + 1
         /\ UNCHANGED i
    ELSE /\ pc' = "foreach"
         /\ i' = i + 1
         /\ UNCHANGED j

RecurseFailedRolledBack(message) ==
    /\ err' = message
    /\ pc' = "cleanup"
    /\ buf' = base
    /\ UNCHANGED <<i, j, pos, bitmap>>

\* return -1 of a call: every caller up to
\* virQEMUBuildObjectCommandlineFromJSON returns -1 at once, which goes to
\* its cleanup label
RecurseFailed(message) ==
    /\ err' = message
    /\ pc' = "cleanup"
    /\ UNCHANGED <<buf, i, j, pos, bitmap>>

NestedArraySkipped(nested) ==
    /\ RecurseReturned(nested)
    /\ UNCHANGED <<buf, err, pos, bitmap>>

\* case VIR_JSON_TYPE_ARRAY with nested set
NestedArray(nested) == RecurseFailed(UnsupportedNesting)

ObjectOrNullSkipped(nested) ==
    /\ RecurseReturned(nested)
    /\ UNCHANGED <<buf, err, pos, bitmap>>

\* case VIR_JSON_TYPE_OBJECT and case VIR_JSON_TYPE_NULL
ObjectOrNull(nested) == RecurseFailed(UnsupportedType)

BitmapOnFailure(rc) == rc # 0

\* virJSONValueGetArrayAsBitmap(value, &bitmap) == 0
BitmapUsable(rc) == rc = 0

\* entry of a call and the switch on value->type; the two loops of the
\* array case run in BitmapLoop and FallbackLoop
Recurse(key, value, nested) ==
    CASE value.type \in {"string", "number", "boolean"} ->
            /\ buf' = buf \o <<",">> \o key \o <<"=">> \o ScalarText(value)
            /\ RecurseReturned(nested)
            /\ UNCHANGED <<err, pos, bitmap>>
      [] value.type = "array" ->
            IF nested
            THEN NestedArray(nested)
            ELSE LET res == GetArrayAsBitmap(value)
                 IN  /\ bitmap' = res.bitmap
                     /\ pc' = IF BitmapUsable(res.rc) THEN "bitmap" ELSE "fallback"
                     /\ j' = 1
                     /\ pos' = -1
                     /\ UNCHANGED <<buf, err, i>>
      [] value.type \in {"object", "null"} ->
            ObjectOrNull(nested)

RangeFragmentPosKept(key, p, end) ==
    IF end - 1 > p
    THEN [text |-> <<",">> \o key \o <<"=">> \o FormatUnsigned(p)
                   \o <<"-">> \o FormatUnsigned(end - 1),
          pos  |-> p]
    ELSE [text |-> <<",">> \o key \o <<"=">> \o FormatUnsigned(p),
          pos  |-> p]

\* one fragment of the bitmap loop: the text appended for the run that
\* starts at p and ends before end, and the value pos is left with
RangeFragment(key, p, end) ==
    IF end - 1 > p
    THEN [text |-> <<",">> \o key \o <<"=">> \o FormatUnsigned(p)
                   \o <<"-">> \o FormatUnsigned(end - 1),
          pos  |-> end]
    ELSE [text |-> <<",">> \o key \o <<"=">> \o FormatUnsigned(p),
          pos  |-> p]

\* while ((pos = virBitmapNextSetBit(bitmap, pos)) > -1) { ... }, then
\* virBitmapFree(bitmap) and return 0
BitmapLoop ==
    /\ pc = "bitmap"
    /\ LET key  == props[i].key
           p    == NextSetBit(bitmap, pos)
           clr  == NextClearBit(bitmap, p)
           end  == IF clr < 0 THEN LastSetBit(bitmap) + 1 ELSE clr
           frag == RangeFragment(key, p, end)
       IN  IF p > -1
           THEN /\ buf' = buf \o frag.text
                /\ pos' = frag.pos
                /\ UNCHANGED <<pc, i, bitmap>>
           ELSE /\ pos' = p
                /\ bitmap' = NoBitmap
                /\ pc' = "foreach"
                /\ i' = i + 1
                /\ UNCHANGED buf
    /\ UNCHANGED <<type, alias, props, enc, ret, err, j, base>>

ArrayGetFirst(value, n) == value.array[1]

\* virJSONValueArrayGet(value, i), the index counted from 1
ArrayGet(value, n) == value.array[n]

\* for (i = 0; i < virJSONValueArraySize(value); i++) with the nested call
\* on each element, then return 0
FallbackLoop ==
    /\ pc = "fallback"
    /\ LET key   == props[i].key
           value == props[i].value
       IN  IF j <= Len(value.array)
           THEN Recurse(key, ArrayGet(value, j), TRUE)
           ELSE /\ pc' = "foreach"
                /\ i' = i + 1
                /\ UNCHANGED <<buf, err, j, pos, bitmap>>
    /\ UNCHANGED <<type, alias, props, enc, ret, base>>

----------------------------------------------------------------------------
(* virQEMUBuildCommandLineJSON and virQEMUBuildObjectCommandlineFromJSON *)

ObjectPrefixEscaped(t, a) == t \o <<",", "i", "d", "=">> \o EscapeComma(a)

\* virBufferAsprintf(&buf, "%s,id=%s", type, alias)
ObjectPrefix(t, a) == t \o <<",", "i", "d", "=">> \o a

\* the call: the buffer is initialized and receives the prefix, then
\* virQEMUBuildCommandLineJSON starts virJSONValueObjectForeachKeyValue
ObjectCommandlineFromJSON(t, a, p) ==
    /\ pc = "idle"
    /\ type' = t
    /\ alias' = a
    /\ props' = p
    /\ buf' = ObjectPrefix(t, a)
    /\ ret' = NULL
    /\ i' = 1
    /\ pc' = "foreach"
    /\ UNCHANGED <<enc, err, j, pos, bitmap, base>>

\* the nested argument virQEMUBuildCommandLineJSONIterate passes
IterateNested == FALSE

\* virJSONValueObjectForeachKeyValue calls virQEMUBuildCommandLineJSONIterate
\* on the next pair of the object
CommandLineJSONIterate ==
    /\ pc = "foreach"
    /\ i <= Len(props)
    /\ base' = buf
    /\ Recurse(props[i].key, props[i].value, IterateNested)
    /\ UNCHANGED <<type, alias, props, enc, ret>>

\* what is left in the buffer once the function has returned:
\* virBufferContentAndReset and virBufferFreeAndReset both empty it
BufferReset(b) == <<>>

ReturnAnyway(b) == b

\* the value returned through the cleanup label after a failure
FailureReturn(b) == NULL

\* every pair was converted: virJSONValueObjectForeachKeyValue returns 0,
\* virBufferCheckError finds no error (the buffer never fails to allocate
\* here), ret takes the content of the buffer and is returned
ObjectReturnContent ==
    /\ pc = "foreach"
    /\ i > Len(props)
    /\ ret' = buf
    /\ buf' = BufferReset(buf)
    /\ pc' = "done"
    /\ UNCHANGED <<type, alias, props, enc, err, i, j, pos, bitmap, base>>

\* a pair failed: goto cleanup, the buffer is freed and ret is returned as
\* it was initialized
ObjectCleanup ==
    /\ pc = "cleanup"
    /\ ret' = FailureReturn(buf)
    /\ buf' = BufferReset(buf)
    /\ pc' = "done"
    /\ UNCHANGED <<type, alias, props, enc, err, i, j, pos, bitmap, base>>

----------------------------------------------------------------------------
(* virQEMUBuildLuksOpts *)

LuksFieldUnescaped(name, str) == name \o str \o <<",">>

\* virBufferAddLit(buf, name), virQEMUBuildBufferEscapeComma(buf, str),
\* virBufferAddLit(buf, ",")
LuksField(name, str) == name \o EscapeComma(str) \o <<",">>

\* the text the function appends to its buffer
LuksOpts(e, a) ==
    LET secret == <<"k", "e", "y", "-", "s", "e", "c", "r", "e", "t", "=">>
                  \o a \o <<",">>
        cipher == <<"c", "i", "p", "h", "e", "r", "-", "a", "l", "g", "=">>
                  \o EscapeComma(e.cipher_name)
                  \o <<"-">> \o FormatUnsigned(e.cipher_size) \o <<",">>
        mode   == IF e.cipher_mode # NULL
                  THEN LuksField(<<"c", "i", "p", "h", "e", "r", "-",
                                   "m", "o", "d", "e", "=">>, e.cipher_mode)
                  ELSE <<>>
        hash   == IF e.cipher_hash # NULL
                  THEN LuksField(<<"h", "a", "s", "h", "-", "a", "l", "g", "=">>,
                                 e.cipher_hash)
                  ELSE <<>>
        ivgen  == LuksField(<<"i", "v", "g", "e", "n", "-", "a", "l", "g", "=">>,
                            e.ivgen_name)
        ivhash == IF e.ivgen_hash # NULL
                  THEN LuksField(<<"i", "v", "g", "e", "n", "-", "h", "a", "s", "h",
                                   "-", "a", "l", "g", "=">>, e.ivgen_hash)
                  ELSE <<>>
    IN  IF e.cipher_name = NULL THEN secret
        ELSE IF e.ivgen_name = NULL THEN secret \o cipher \o mode \o hash
        ELSE secret \o cipher \o mode \o hash \o ivgen \o ivhash

\* the call, on a buffer that holds b already
BuildLuksOpts(e, a, b) ==
    /\ pc = "idle"
    /\ enc' = e
    /\ alias' = a
    /\ base' = b
    /\ buf' = b \o LuksOpts(e, a)
    /\ pc' = "luks"
    /\ UNCHANGED <<type, props, ret, err, i, j, pos, bitmap>>

----------------------------------------------------------------------------
(* The inputs of the calls *)

secret == <<"s", "e", "c", "r", "e", "t">>
sec0 == <<"s", "e", "c", "0">>
k == <<"k">>
cpus == <<"c", "p", "u", "s">>
data == <<"d", "a", "t", "a">>
aCommaB == <<"a", ",", "b">>
abcCommaDef == <<"a", "b", "c", ",", "d", "e", "f">>

Types == {secret}
Aliases == {sec0, aCommaB}
Keys == {k, cpus, data}

\* the scalars that occur as array elements and in objects of two pairs
ElemScalars == {JString(aCommaB), JNumber(<<"0">>), JNumber(<<"1">>),
                JNumber(<<"-", "1">>), JBoolean(TRUE)}

Scalars == ElemScalars \cup {JString(<<>>), JString(abcCommaDef),
                             JNumber(<<"1", ".", "5">>), JBoolean(FALSE)}

Elems == ElemScalars \cup {JNull, JObject, JArray(<<>>),
                           JArray(<<JNumber(<<"1">>)>>), JArray(<<JNull>>)}

\* the arrays of at most n elements
Arrays(n) == {JArray(a) : a \in UNION {[1..m -> Elems] : m \in 0..n}}

RECURSIVE Ascending(_)
\* the array of the integers of S in ascending order
Ascending(S) ==
    IF S = {} THEN <<>>
    ELSE <<JNumber(FormatUnsigned(SetMin(S)))>> \o Ascending(S \ {SetMin(S)})

IntegerArrays == {JArray(Ascending(S)) : S \in SUBSET (0..MaxBit)}

SingleValues == Scalars \cup {JNull, JObject} \cup Arrays(MaxLen) \cup IntegerArrays

PairValues == ElemScalars \cup {JNull, JObject, JBoolean(FALSE)} \cup Arrays(MaxLen - 1)

Pair(key, value) == [key |-> key, value |-> value]

PropsSet ==
    {<<>>}
    \cup {<<Pair(k1, v1)>> : k1 \in Keys, v1 \in SingleValues}
    \cup {<<Pair(kk[1], v1), Pair(kk[2], v2)>> :
            kk \in {x \in Keys \X Keys : x[1] # x[2]},
            v1 \in PairValues, v2 \in PairValues}

OptionalNames == {NULL, <<"a", "e", "s">>, aCommaB}

EncSet == [cipher_name : OptionalNames, cipher_size : {0, 256},
           cipher_mode : {NULL, aCommaB}, cipher_hash : {NULL, aCommaB},
           ivgen_name : OptionalNames, ivgen_hash : {NULL, aCommaB}]

Buffers == {<<>>, <<"x", ",">>}

----------------------------------------------------------------------------

\* a caller builds an -object argument
CallObjectCommandlineFromJSON ==
    /\ pc = "idle"
    /\ \E t \in Types, a \in Aliases, p \in PropsSet : ObjectCommandlineFromJSON(t, a, p)

\* a caller adds the LUKS options to the text of its argument
CallBuildLuksOpts ==
    /\ pc = "idle"
    /\ \E e \in EncSet, a \in Aliases, b \in Buffers : BuildLuksOpts(e, a, b)

Next ==
    \/ CallObjectCommandlineFromJSON
    \/ CommandLineJSONIterate
    \/ BitmapLoop
    \/ FallbackLoop
    \/ ObjectReturnContent
    \/ ObjectCleanup
    \/ CallBuildLuksOpts

Spec == Init /\ [][Next]_vars

----------------------------------------------------------------------------
(* What the calls are expected to produce *)

IsPrefix(a, b) == Len(a) <= Len(b) /\ SubSeq(b, 1, Len(a)) = a

RECURSIVE ConcatTo(_, _)
\* f[1] \o ... \o f[n]
ConcatTo(f, n) == IF n = 0 THEN <<>> ELSE ConcatTo(f, n - 1) \o f[n]

CommasBefore(str, n) == Cardinality({m \in 1..(n - 1) : str[m] = ","})

\* str with every comma doubled: character n of str is found after the
\* n - 1 characters before it and one more comma for each comma among them
Doubled(str) ==
    [q \in 1..(Len(str) + CommasBefore(str, Len(str) + 1)) |->
        str[CHOOSE n \in 1..Len(str) :
              /\ n + CommasBefore(str, n) <= q
              /\ q <= n + CommasBefore(str, n) + (IF str[n] = "," THEN 1 ELSE 0)]]

IsScalar(v) == v.type \in {"string", "number", "boolean"}

ExpectedText(v) ==
    CASE v.type = "string"  -> Doubled(v.string)
      [] v.type = "number"  -> v.number
      [] v.type = "boolean" -> IF v.boolean THEN <<"y", "e", "s">> ELSE <<"n", "o">>

ScalarFragment(key, v) == <<",">> \o key \o <<"=">> \o ExpectedText(v)

\* the fragments of the first n elements of an array
ElementFragments(key, a, n) == ConcatTo([m \in 1..n |-> ScalarFragment(key, a[m])], n)

\* the runs of consecutive integers of S that cannot be extended
MaximalRuns(S) ==
    {r \in S \X S : /\ r[1] <= r[2]
                    /\ \A x \in r[1]..r[2] : x \in S
                    /\ (r[1] - 1) \notin S
                    /\ (r[2] + 1) \notin S}

RunFragment(key, r) ==
    IF r[1] = r[2]
    THEN <<",">> \o key \o <<"=">> \o FormatUnsigned(r[1])
    ELSE <<",">> \o key \o <<"=">> \o FormatUnsigned(r[1]) \o <<"-">> \o FormatUnsigned(r[2])

RECURSIVE RunFragments(_, _)
\* the fragments of a set of runs, in ascending order of their first element
RunFragments(key, runs) ==
    IF runs = {} THEN <<>>
    ELSE LET first == CHOOSE r \in runs : \A o \in runs : r[1] <= o[1]
         IN  RunFragment(key, first) \o RunFragments(key, runs \ {first})

IsArray(v) == v.type = "array"

\* bitmap construction succeeds for the array
HasBitmap(v) == IsArray(v) /\ GetArrayAsBitmap(v).rc = 0

IntegersOf(v) == {StrToUll(v.array[n].number) : n \in 1..Len(v.array)}

\* the first element of an array that is not a scalar, Len + 1 when all are
FirstBadElement(a) ==
    IF \A n \in 1..Len(a) : IsScalar(a[n]) THEN Len(a) + 1
    ELSE CHOOSE n \in 1..Len(a) : ~IsScalar(a[n]) /\ \A m \in 1..(n - 1) : IsScalar(a[m])

Encodable(v) ==
    \/ IsScalar(v)
    \/ HasBitmap(v)
    \/ IsArray(v) /\ FirstBadElement(v.array) > Len(v.array)

\* the output of the walker for an encodable value, nested = false
ExpectedFragment(key, v) ==
    IF IsScalar(v) THEN ScalarFragment(key, v)
    ELSE IF HasBitmap(v) THEN RunFragments(key, MaximalRuns(IntegersOf(v)))
    ELSE ElementFragments(key, v.array, Len(v.array))

\* the error of the walker for a value that is not encodable
ExpectedError(v) ==
    IF IsArray(v) /\ v.array[FirstBadElement(v.array)].type = "array"
    THEN UnsupportedNesting
    ELSE UnsupportedType

FirstFailing(p) ==
    IF \A n \in 1..Len(p) : Encodable(p[n].value) THEN Len(p) + 1
    ELSE CHOOSE n \in 1..Len(p) :
            ~Encodable(p[n].value) /\ \A m \in 1..(n - 1) : Encodable(p[m].value)

\* the prefix and the fragments of the first n pairs
ExpectedUpTo(n) ==
    type \o <<",", "i", "d", "=">> \o alias
    \o ConcatTo([m \in 1..n |-> ExpectedFragment(props[m].key, props[m].value)], n)

\* the walker is about to be called
Calling ==
    \/ pc = "foreach" /\ i <= Len(props)
    \/ pc = "fallback" /\ j <= Len(props[i].value.array)

CallValue == IF pc = "foreach" THEN props[i].value ELSE props[i].value.array[j]
CallKey == props[i].key
CallNested == pc = "fallback"

\* an object call has returned
Returned == pc = "done"

----------------------------------------------------------------------------
(* C1 *)

\* C1: when every value of props is encodable, the call returns
\* "<type>,id=<alias>" followed by the walker's output (nested = false) for
\* each pair, in the order of the pairs; ("secret", "sec0",
\* {"data": "abc,def"}) returns "secret,id=sec0,data=abc,,def".
C1_ObjectArg ==
    Returned /\ FirstFailing(props) > Len(props) =>
        /\ ret = ExpectedUpTo(Len(props))
        /\ (type = secret /\ alias = sec0
            /\ props = <<Pair(data, JString(abcCommaDef))>>) =>
             ret = <<"s", "e", "c", "r", "e", "t", ",", "i", "d", "=", "s", "e", "c", "0",
                     ",", "d", "a", "t", "a", "=", "a", "b", "c", ",", ",", "d", "e", "f">>

C1_Witness ==
    /\ Returned
    /\ type = secret /\ alias = sec0
    /\ props = <<Pair(data, JString(abcCommaDef))>>
    /\ ret # NULL

----------------------------------------------------------------------------
(* C2 *)

\* C2: a string is returned if and only if every pair was encoded; when a
\* pair fails the walk has stopped at the first failing pair, the error is
\* that pair's error, NULL is returned and nothing is left of the buffer.
C2_AllOrNothing ==
    Returned =>
        LET f == FirstFailing(props)
        IN  /\ (ret # NULL) <=> (f > Len(props))
            /\ f <= Len(props) =>
                 /\ ret = NULL
                 /\ i = f
                 /\ err = ExpectedError(props[f].value)
                 /\ buf = <<>>

C2_Witness ==
    /\ Returned
    /\ Len(props) = 2
    /\ i = 1
    /\ ret = NULL
    /\ Encodable(props[2].value)

----------------------------------------------------------------------------
(* C3 *)

CpusExample == JArray(<<JNumber(<<"0">>), JNumber(<<"1">>), JNumber(<<"2">>),
                        JNumber(<<"5">>), JNumber(<<"7">>), JNumber(<<"8">>),
                        JNumber(<<"9">>)>>)

CpusExampleText ==
    <<",", "c", "p", "u", "s", "=", "0", "-", "2", ",", "c", "p", "u", "s", "=", "5",
      ",", "c", "p", "u", "s", "=", "7", "-", "9">>

\* C3: once the walker has returned from an array that has a bitmap, it has
\* appended exactly one fragment per maximal run of consecutive integers of
\* the array, in ascending order, ",<key>=<n>" for a run of one integer and
\* ",<key>=<first>-<last>" for a longer run; [0,1,2,5,7,8,9] under cpus
\* gives ",cpus=0-2,cpus=5,cpus=7-9".
C3_Runs ==
    (pc = "foreach" /\ i > 1 /\ HasBitmap(props[i - 1].value)) =>
        LET key == props[i - 1].key
            S   == IntegersOf(props[i - 1].value)
        IN  /\ buf = base \o RunFragments(key, MaximalRuns(S))
            /\ (key = cpus /\ props[i - 1].value = CpusExample) =>
                 buf = base \o CpusExampleText

C3_Witness ==
    /\ pc = "foreach"
    /\ i = 2
    /\ props = <<Pair(cpus, CpusExample)>>
    /\ buf = base \o CpusExampleText

----------------------------------------------------------------------------
(* C4 *)

\* C4: a walker call on a scalar, nested or not, succeeds and appends
\* exactly ",<key>=<text>": the string with every comma doubled, the token
\* of the number, yes or no; "a,b" under k gives ",k=a,,b".
C4_Scalar ==
    [][(Calling /\ IsScalar(CallValue)) =>
         /\ buf' = buf \o ScalarFragment(CallKey, CallValue)
         /\ pc' # "cleanup"
         /\ err' = err
         /\ (CallKey = k /\ CallValue = JString(aCommaB)) =>
              buf' = buf \o <<",", "k", "=", "a", ",", ",", "b">>]_vars

C4_Witness ==
    /\ pc = "fallback"
    /\ j = 2
    /\ props[i].key = k
    /\ props[i].value.array[1] = JString(aCommaB)
    /\ buf = base \o <<",", "k", "=", "a", ",", ",", "b">>

----------------------------------------------------------------------------
(* C5 *)

ContainsArray(v) == IsArray(v) /\ \E n \in 1..Len(v.array) : IsArray(v.array[n])

FirstArrayElement(a) ==
    CHOOSE n \in 1..Len(a) : IsArray(a[n]) /\ \A m \in 1..(n - 1) : ~IsArray(a[m])

\* a walker call on an array with nested set fails with UnsupportedNesting
\* and leaves the buffer as it was
NestedArrayCallFails ==
    (Calling /\ CallNested /\ IsArray(CallValue)) =>
        /\ err' = UnsupportedNesting
        /\ buf' = buf
        /\ pc' = "cleanup"

\* no array that contains an array has been encoded
NoArrayOfArrayEncoded ==
    pc \in {"foreach", "bitmap", "fallback"} =>
        \A n \in 1..(i - 1) : ~ContainsArray(props[n].value)

\* the walk of an array that contains an array always ends with
\* UnsupportedNesting
ArrayOfArrayIsNesting ==
    (pc = "cleanup" /\ ContainsArray(props[i].value)) => err = UnsupportedNesting

\* the same, but for an object or null element in front of the first array
ArrayOfArrayError ==
    (pc = "cleanup" /\ ContainsArray(props[i].value)) =>
        LET a == props[i].value.array
        IN  err = IF \E m \in 1..(FirstArrayElement(a) - 1) : a[m].type \in {"object", "null"}
                  THEN UnsupportedType
                  ELSE UnsupportedNesting

\* C5 as stated: a walker call on an array with nested set fails with
\* UnsupportedNesting and appends nothing, and encoding any array that
\* contains an array fails with UnsupportedNesting.
C5_Original ==
    [][NestedArrayCallFails /\ NoArrayOfArrayEncoded' /\ ArrayOfArrayIsNesting']_vars

\* C5 amended: a walker call on an array with nested set fails with
\* UnsupportedNesting and appends nothing, and encoding any array that
\* contains an array fails, with UnsupportedNesting unless an object or
\* null element stands before the first array element, which has then
\* failed the walk with UnsupportedType.
C5_Nesting ==
    [][NestedArrayCallFails /\ NoArrayOfArrayEncoded' /\ ArrayOfArrayError']_vars

C5_Witness ==
    /\ pc = "cleanup"
    /\ err = UnsupportedNesting
    /\ j = 2
    /\ IsScalar(props[i].value.array[1])
    /\ props[i].value.array[2] = JArray(<<JNull>>)
    /\ buf = base \o ScalarFragment(props[i].key, props[i].value.array[1])

----------------------------------------------------------------------------
(* C6 *)

\* C6: a walker call on an object or null value, as the value of a pair or
\* as an element of an array, fails with UnsupportedType and appends
\* nothing, what was appended before stays in the buffer, and the encoding
\* fails.
C6_ObjectOrNull ==
    [][/\ (Calling /\ CallValue.type \in {"object", "null"}) =>
            /\ err' = UnsupportedType
            /\ buf' = buf
            /\ pc' = "cleanup"
       /\ (pc = "cleanup" /\ err = UnsupportedType) =>
            /\ pc' = "done"
            /\ ret' = NULL]_vars

C6_Witness ==
    /\ pc = "cleanup"
    /\ err = UnsupportedType
    /\ j = 2
    /\ props[i].value.array[2] = JNull
    /\ base = type \o <<",", "i", "d", "=">> \o alias
    /\ buf = base \o <<",", "k", "=", "a", ",", ",", "b">>

----------------------------------------------------------------------------
(* C7 *)

Present(x) == x # NULL

ExpectedLuks(e, a) ==
    <<"k", "e", "y", "-", "s", "e", "c", "r", "e", "t", "=">> \o a \o <<",">>
    \o (IF Present(e.cipher_name)
        THEN <<"c", "i", "p", "h", "e", "r", "-", "a", "l", "g", "=">>
             \o Doubled(e.cipher_name) \o <<"-">> \o FormatUnsigned(e.cipher_size)
             \o <<",">>
             \o (IF Present(e.cipher_mode)
                 THEN <<"c", "i", "p", "h", "e", "r", "-", "m", "o", "d", "e", "=">>
                      \o Doubled(e.cipher_mode) \o <<",">>
                 ELSE <<>>)
             \o (IF Present(e.cipher_hash)
                 THEN <<"h", "a", "s", "h", "-", "a", "l", "g", "=">>
                      \o Doubled(e.cipher_hash) \o <<",">>
                 ELSE <<>>)
        ELSE <<>>)
    \o (IF Present(e.cipher_name) /\ Present(e.ivgen_name)
        THEN <<"i", "v", "g", "e", "n", "-", "a", "l", "g", "=">>
             \o Doubled(e.ivgen_name) \o <<",">>
             \o (IF Present(e.ivgen_hash)
                 THEN <<"i", "v", "g", "e", "n", "-", "h", "a", "s", "h", "-",
                        "a", "l", "g", "=">>
                      \o Doubled(e.ivgen_hash) \o <<",">>
                 ELSE <<>>)
        ELSE <<>>)

\* C7: virQEMUBuildLuksOpts appends "key-secret=<alias>,", then only with a
\* cipher name the cipher-alg field and, each if present, cipher-mode and
\* hash-alg, then only with a cipher name and an ivgen name the ivgen-alg
\* field and, if present, ivgen-hash-alg; without a cipher name nothing but
\* key-secret is appended; the text ends with a comma.
C7_Luks ==
    pc = "luks" =>
        /\ buf = base \o ExpectedLuks(enc, alias)
        /\ buf[Len(buf)] = ","
        /\ ~Present(enc.cipher_name) =>
             buf = base \o <<"k", "e", "y", "-", "s", "e", "c", "r", "e", "t", "=">>
                        \o alias \o <<",">>
        /\ (/\ base = <<>> /\ alias = sec0
            /\ enc = [NoEnc EXCEPT !.cipher_name = <<"a", "e", "s">>,
                                   !.cipher_size = 256]) =>
             buf = <<"k", "e", "y", "-", "s", "e", "c", "r", "e", "t", "=", "s", "e", "c",
                     "0", ",", "c", "i", "p", "h", "e", "r", "-", "a", "l", "g", "=",
                     "a", "e", "s", "-", "2", "5", "6", ",">>

C7_Witness ==
    /\ pc = "luks"
    /\ Present(enc.cipher_name) /\ Present(enc.cipher_mode) /\ Present(enc.cipher_hash)
    /\ Present(enc.ivgen_name) /\ Present(enc.ivgen_hash)
    /\ enc.cipher_mode = aCommaB
    /\ buf = base \o ExpectedLuks(enc, alias)

----------------------------------------------------------------------------
(* C8 *)

\* the buffer when the walk has failed: the prefix, the fragments of the
\* pairs before the failing one and, in an array, of the elements before
\* the failing one
FailedContent ==
    pc = "cleanup" =>
        /\ base = ExpectedUpTo(i - 1)
        /\ buf = base \o (IF IsArray(props[i].value)
                          THEN ElementFragments(props[i].key, props[i].value.array, j - 1)
                          ELSE <<>>)

\* C8: every step of the walker leaves the buffer with its former content
\* as a prefix, the content on entry to a call stays a prefix during the
\* call, and a failed walk leaves the former content followed by the
\* fragments of what was encoded before the failure.
C8_AppendOnly ==
    [][/\ (Calling \/ pc \in {"bitmap", "fallback"}) => IsPrefix(buf, buf')
       /\ pc' \in {"bitmap", "fallback", "cleanup"} => IsPrefix(base', buf')
       /\ FailedContent']_vars

C8_Witness ==
    /\ pc = "cleanup"
    /\ Len(props) = 2
    /\ i = 2
    /\ IsArray(props[2].value)
    /\ Len(base) > Len(type \o <<",", "i", "d", "=">> \o alias)
    /\ buf = base

----------------------------------------------------------------------------
(* C9 *)

\* C9: for an array without a bitmap the elements are encoded one by one in
\* order under the key of the array, n scalar elements give n fragments,
\* and the first element that fails ends the iteration with its error.
C9_Fallback ==
    /\ pc = "fallback" =>
         /\ ~HasBitmap(props[i].value)
         /\ j <= FirstBadElement(props[i].value.array)
         /\ buf = base \o ElementFragments(props[i].key, props[i].value.array, j - 1)
    /\ (pc = "foreach" /\ i > 1 /\ IsArray(props[i - 1].value)
        /\ ~HasBitmap(props[i - 1].value)) =>
         /\ FirstBadElement(props[i - 1].value.array) > Len(props[i - 1].value.array)
         /\ buf = base \o ElementFragments(props[i - 1].key, props[i - 1].value.array,
                                           Len(props[i - 1].value.array))
    /\ (pc = "cleanup" /\ IsArray(props[i].value)) =>
         /\ j = FirstBadElement(props[i].value.array)
         /\ err = ExpectedError(props[i].value)
         /\ buf = base \o ElementFragments(props[i].key, props[i].value.array, j - 1)

C9_Witness ==
    /\ pc = "foreach"
    /\ i = 2
    /\ props = <<Pair(k, JArray(<<JString(aCommaB), JBoolean(TRUE)>>))>>
    /\ buf = base \o <<",", "k", "=", "a", ",", ",", "b", ",", "k", "=", "y", "e", "s">>

----------------------------------------------------------------------------
(* C10 *)

\* an array of non-negative integers with a duplicate or out of order
UnsortedIntegers(v) ==
    /\ IsArray(v)
    /\ \A n \in 1..Len(v.array) :
          v.array[n].type = "number" /\ StrToUll(v.array[n].number) >= 0
    /\ \E n \in 1..Len(v.array) : \E m \in (n + 1)..Len(v.array) :
          StrToUll(v.array[n].number) >= StrToUll(v.array[m].number)

NumberFragments(key, a) ==
    ConcatTo([m \in 1..Len(a) |-> <<",">> \o key \o <<"=">> \o a[m].number], Len(a))

====
